---- MODULE Spec2Model ----
(***************************************************************************)
(* Model of src/widgets/chart.rs: the Chart widget of a terminal UI        *)
(* library.  A Chart holds an optional Block, two Axis values and a list   *)
(* of Datasets; Chart::buffer renders it into a cell buffer after           *)
(* Chart::layout has partitioned the area.                                  *)
(*                                                                         *)
(* Strings are represented by their display width (the code only takes     *)
(* .width() of a title or label and hands the text to the buffer), colours *)
(* are left out, f64 samples are integers (exactly representable).         *)
(* Cell coordinates are u16: every u16 operation is computed modulo 2^16   *)
(* and its overflow is recorded; a debug build panics on the first         *)
(* overflow, a release build carries on with the wrapped value.            *)
(***************************************************************************)
EXTENDS Integers, Sequences, FiniteSets

VARIABLES chart, build, out

vars == <<chart, build, out>>

\* ------------------------------------------------------------- bounds
MaxW == 4
MaxH == 6
MaxVal == 2
MaxTitle == 2
MaxBorder == 2
MaxDataW == 3
MaxDataH == 4

\* u16::MAX + 1
U16 == 65536

\* ------------------------------------------------------------- values
None == [some |-> FALSE, v |-> 0]
Some(x) == [some |-> TRUE, v |-> x]
NoLabels == [some |-> FALSE, v |-> <<>>]
NonePos == [some |-> FALSE, v |-> <<0, 0>>]

Rect(x, y, w, h) == [x |-> x, y |-> y, width |-> w, height |-> h]
RectDefault == Rect(0, 0, 0, 0)

Axis(title, bounds, labels) == [title |-> title, bounds |-> bounds, labels |-> labels]
AxisDefault == Axis(None, <<0, 0>>, NoLabels)

ChartDefault == [block |-> None, x_axis |-> AxisDefault, y_axis |-> AxisDefault,
                 datasets |-> <<>>]

ChartLayoutDefault == [legend_x |-> NonePos, legend_y |-> NonePos,
                       label_x |-> None, label_y |-> None,
                       axis_x |-> None, axis_y |-> None,
                       graph_area |-> RectDefault]

\* ------------------------------------------------------------- u16 arithmetic
Add16(a, b) == (a + b) % U16
AddOvf(a, b) == a + b >= U16
Sub16(a, b) == (a - b) % U16
SubOvf(a, b) == a < b
Mul16(a, b) == (a * b) % U16
MulOvf(a, b) == a * b >= U16

RECURSIVE FoldMax(_)
FoldMax(s) == IF s = <<>> THEN 0
              ELSE LET r == FoldMax(Tail(s)) IN IF Head(s) > r THEN Head(s) ELSE r

RECURSIVE FoldSum(_)
FoldSum(s) == IF s = <<>> THEN 0 ELSE Head(s) + FoldSum(Tail(s))

\* ------------------------------------------------------------- Chart::layout
\* A legend one row lower, on the x-axis line itself.
LegendXOnAxisLine(x, width, w, y) == <<Sub16(Add16(x, width), w), Add16(y, 1)>>

\* (x + layout.graph_area.width - w, y)
LegendX(x, width, w, y) == <<Sub16(Add16(x, width), w), y>>

\* layout is a single pass over a cursor (x, y) local to outer; a step
\* state carries the cursor, the ChartLayout built so far and whether a u16
\* operation on the executed path overflowed.
LayoutStart(inner, outer) ==
  [x |-> Sub16(inner.x, outer.x),
   y |-> Add16(Sub16(inner.height, 1), Sub16(inner.y, outer.y)),
   layout |-> ChartLayoutDefault,
   fault |-> \/ SubOvf(inner.x, outer.x)
             \/ SubOvf(inner.height, 1)
             \/ SubOvf(inner.y, outer.y)
             \/ AddOvf(Sub16(inner.height, 1), Sub16(inner.y, outer.y))]

ReserveLabelX(c, st) ==
  IF c.x_axis.labels.some /\ st.y > 1
  THEN [st EXCEPT !.layout.label_x = Some(st.y), !.y = Sub16(st.y, 1)]
  ELSE st

ReserveLabelY(c, inner, st) ==
  LET max_width == FoldMax(c.y_axis.labels.v) % U16 IN
  IF ~c.y_axis.labels.some THEN st
  ELSE IF Add16(st.x, max_width) < inner.width
  THEN [st EXCEPT !.layout.label_y = Some(st.x), !.x = Add16(st.x, max_width),
                  !.fault = @ \/ AddOvf(st.x, max_width)]
  ELSE [st EXCEPT !.fault = @ \/ AddOvf(st.x, max_width)]

ReserveAxisX(c, st) ==
  IF c.x_axis.labels.some /\ st.y > 1
  THEN [st EXCEPT !.layout.axis_x = Some(st.y), !.y = Sub16(st.y, 1)]
  ELSE st

ReserveAxisY(c, inner, st) ==
  IF ~c.y_axis.labels.some THEN st
  ELSE IF Add16(st.x, 1) < inner.width
  THEN [st EXCEPT !.layout.axis_y = Some(st.x), !.x = Add16(st.x, 1),
                  !.fault = @ \/ AddOvf(st.x, 1)]
  ELSE [st EXCEPT !.fault = @ \/ AddOvf(st.x, 1)]

PlaceGraph(inner, outer, st) ==
  IF st.x < inner.width /\ st.y > 1
  THEN [st EXCEPT !.layout.graph_area =
                     Rect(Add16(outer.x, st.x), inner.y, Sub16(inner.width, st.x), st.y),
                  !.fault = @ \/ AddOvf(outer.x, st.x)]
  ELSE st

PlaceLegendX(c, st) ==
  LET w == c.x_axis.title.v % U16
      ga == st.layout.graph_area
  IN IF c.x_axis.title.some /\ w < ga.width /\ ga.height > 2
     THEN [st EXCEPT !.layout.legend_x = Some(LegendX(st.x, ga.width, w, st.y)),
                     !.fault = @ \/ AddOvf(st.x, ga.width)
                                 \/ SubOvf(Add16(st.x, ga.width), w)]
     ELSE st

PlaceLegendY(c, inner, outer, st) ==
  LET w == c.y_axis.title.v % U16
      ga == st.layout.graph_area
  IN IF ~c.y_axis.title.some THEN st
     ELSE IF Add16(w, 1) < ga.width /\ ga.height > 2
     THEN [st EXCEPT !.layout.legend_y = Some(<<Add16(st.x, 1), Sub16(inner.y, outer.y)>>),
                     !.fault = @ \/ AddOvf(w, 1) \/ AddOvf(st.x, 1)]
     ELSE [st EXCEPT !.fault = @ \/ AddOvf(w, 1)]

\* The ChartLayout returned, with the overflow flag of the pass.
layout(c, inner, outer) ==
  LET st == PlaceLegendY(c, inner, outer,
              PlaceLegendX(c,
                PlaceGraph(inner, outer,
                  ReserveAxisY(c, inner,
                    ReserveAxisX(c,
                      ReserveLabelY(c, inner,
                        ReserveLabelX(c,
                          LayoutStart(inner, outer))))))))
  IN [layout |-> st.layout, fault |-> st.fault]

\* ------------------------------------------------------------- Block::inner
\* The bordering frame is an external collaborator: a block of border
\* thickness d leaves the area shrunk by d on every side.
BlockFits(b, area) == b.some => (area.width >= 2 * b.v /\ area.height >= 2 * b.v)
BlockInner(b, area) ==
  IF b.some THEN Rect(area.x + b.v, area.y + b.v, area.width - 2 * b.v, area.height - 2 * b.v)
            ELSE area

\* Buffer::update_cell / set_string clip to the buffer: a write at local
\* (col, row) lands iff the cell is inside the buffer of the area.
InBuffer(area, col, row) == col < area.width /\ row < area.height

\* ------------------------------------------------------------- data-point scaling
\* (max - v) * extent as f64 / (max - min), then `as u16`.  The operands are
\* small integers, so the f64 quotient truncates to the integer quotient.
\* With max = min the quotient is 0.0/0.0 = NaN, whose cast to u16 is
\* undefined: nan is the value the build produces.
\* The scaling measured from the minimum instead of the maximum.
ScaleFromMin(v, lo, hi, extent, nan) ==
  IF hi = lo THEN nan ELSE ((v - lo) * extent) \div (hi - lo)

Scale(v, lo, hi, extent, nan) ==
  IF hi = lo THEN nan ELSE ((hi - v) * extent) \div (hi - lo)

InBounds(s, c) ==
  ~(s[1] < c.x_axis.bounds[1] \/ s[1] > c.x_axis.bounds[2]
    \/ s[2] < c.y_axis.bounds[1] \/ s[2] > c.y_axis.bounds[2])

\* The update_cell calls of the dataset loop.
DataPoints(c, area, width, height, margin_x, margin_y, nanx, nany) ==
  { LET s == c.datasets[d][i]
        dy == Scale(s[2], c.y_axis.bounds[1], c.y_axis.bounds[2], height, nany)
        dx == Scale(s[1], c.x_axis.bounds[1], c.x_axis.bounds[2], width, nanx)
        col == Add16(dx, margin_x)
        row == Add16(dy, margin_y)
    IN [d |-> d, i |-> i, x |-> s[1], y |-> s[2], dx |-> dx, dy |-> dy,
        col |-> col, row |-> row,
        drawn |-> InBuffer(area, col, row),
        ovf |-> AddOvf(dx, margin_x) \/ AddOvf(dy, margin_y)]
    : <<d, i>> \in { p \in UNION {{<<k, j>> : j \in DOMAIN c.datasets[k]} : k \in DOMAIN c.datasets} :
                       InBounds(c.datasets[p[1]][p[2]], c) } }

\* The set_string calls of the x labels: label i (0-based) at column
\* margin_x + i * (width - 1) / (labels_len - 1) - label.width().
XLabels(c, L, width, margin_x) ==
  LET labels == c.x_axis.labels.v
      n == Len(labels) % U16
      total == FoldSum(labels) % U16
  IN IF L.label_x.some /\ total < width /\ n > 1
     THEN { LET m == Mul16(i, Sub16(width, 1))
                q == m \div (n - 1)
                a == Add16(margin_x, q)
                w == labels[i + 1] % U16
            IN [i |-> i, col |-> Sub16(a, w), row |-> L.label_x.v,
                ovf |-> SubOvf(width, 1) \/ MulOvf(i, Sub16(width, 1)) \/ AddOvf(margin_x, q) \/ SubOvf(a, w)]
            : i \in 0..(n - 1) }
     ELSE {}

\* The set_string calls of the y labels: the labels reversed, label i at
\* row margin_y + i * (height - 1) / (labels_len - 1).
YLabels(c, L, height, margin_y) ==
  LET labels == c.y_axis.labels.v
      n == Len(labels) % U16
  IN IF L.label_y.some /\ n > 1
     THEN { LET h1 == Sub16(height, 1)
                m == Mul16(i, h1)
                q == m \div (n - 1)
            IN [i |-> i, col |-> L.label_y.v, row |-> Add16(margin_y, q),
                ovf |-> SubOvf(height, 1) \/ MulOvf(i, h1) \/ AddOvf(margin_y, q)]
            : i \in 0..(n - 1) }
     ELSE {}

\* margin + k for k in 0..extent overflows iff it does for k = extent - 1.
AxisLineOvf(present, margin, extent) == present /\ extent >= 1 /\ AddOvf(margin, extent - 1)

\* ------------------------------------------------------------- Chart::buffer
NoOut == [status |-> "none", area |-> RectDefault, inner |-> RectDefault,
          laid |-> FALSE, layout |-> ChartLayoutDefault, lfault |-> FALSE,
          width |-> 0, height |-> 0, margin_x |-> 0, margin_y |-> 0,
          xlabels |-> {}, ylabels |-> {}, marks |-> {}, fault |-> FALSE]

buffer(c, area, nanx, nany, mode) ==
  LET inner == BlockInner(c.block, area)
      Lf == layout(c, inner, area)
      L == Lf.layout
      width == L.graph_area.width
      height == L.graph_area.height
      margin_x == Sub16(L.graph_area.x, area.x)
      margin_y == Sub16(L.graph_area.y, area.y)
      fm == SubOvf(L.graph_area.x, area.x) \/ SubOvf(L.graph_area.y, area.y)
      xs == XLabels(c, L, width, margin_x)
      ys == YLabels(c, L, height, margin_y)
      fl == AxisLineOvf(L.axis_x.some, margin_x, width)
            \/ AxisLineOvf(L.axis_y.some, margin_y, height)
      ms == DataPoints(c, area, width, height, margin_x, margin_y, nanx, nany)
      fault == Lf.fault \/ fm \/ fl \/ (\E r \in xs \cup ys : r.ovf) \/ (\E m \in ms : m.ovf)
      panic == mode = "debug" /\ fault
      laid == ~(mode = "debug" /\ Lf.fault)
  IN [status |-> IF panic THEN "panic" ELSE "ok",
      area |-> area, inner |-> inner,
      laid |-> laid,
      layout |-> IF laid THEN L ELSE ChartLayoutDefault,
      lfault |-> Lf.fault,
      width |-> IF panic THEN 0 ELSE width,
      height |-> IF panic THEN 0 ELSE height,
      margin_x |-> IF panic THEN 0 ELSE margin_x,
      margin_y |-> IF panic THEN 0 ELSE margin_y,
      xlabels |-> IF panic THEN {} ELSE {[i |-> r.i, col |-> r.col, row |-> r.row] : r \in xs},
      ylabels |-> IF panic THEN {} ELSE {[i |-> r.i, col |-> r.col, row |-> r.row] : r \in ys},
      marks |-> IF panic THEN {}
                ELSE {[d |-> m.d, i |-> m.i, x |-> m.x, y |-> m.y, dx |-> m.dx,
                       dy |-> m.dy, col |-> m.col, row |-> m.row,
                       drawn |-> m.drawn] : m \in ms},
      fault |-> fault]

\* ------------------------------------------------------------- inputs
Titles == {None} \cup {Some(w) : w \in 1..MaxTitle}
LabelChoices == {NoLabels, Some(<<1, 1>>), Some(<<2>>), Some(<<0, 0>>)}
BoundsOver(n) == {<<lo, hi>> \in (0..n) \X (0..n) : lo <= hi}

\* Axes of the layout-centred specification: every title and label choice.
LayoutAxes == {Axis(t, <<0, 1>>, l) : t \in Titles, l \in LabelChoices}
LayoutDatasets == {<<>>, << <<<<1, 1>>>> >>, << <<<<1, 0>>>> >>, << <<<<0, 1>>>> >>}

Blocks == {None} \cup {Some(d) : d \in 1..MaxBorder}

\* Axes and datasets of the scaling-centred specification: every pair of
\* bounds, every one or two samples.
ScaleAxes == {Axis(None, b, NoLabels) : b \in BoundsOver(MaxVal)}
Samples == {<<v, v>> : v \in 0..MaxVal} \cup {<<v, MaxVal - v>> : v \in 0..MaxVal}
ScaleDatasets == {<<>>} \cup {<< <<s>> >> : s \in Samples}
                   \cup {<< <<s, t>> >> : s \in Samples, t \in Samples}
ScaleBlocks == {None, Some(1)}
ScaleAreas == {Rect(0, 0, w, h) : w \in 0..MaxDataW, h \in 0..MaxDataH}
Origins == {<<0, 0>>, <<1, 1>>}
Areas == {Rect(o[1], o[2], w, h) : o \in Origins, w \in 0..MaxW, h \in 0..MaxH}
             \cup {Rect(0, 0, 20, 10)}
\* Outcomes of the undefined NaN-to-u16 cast.
NaNCast == {0, 1, U16 - 1}
Builds == {"debug", "release"}

\* ------------------------------------------------------------- actions
Init ==
  /\ chart = ChartDefault
  /\ build \in Builds
  /\ out = NoOut

\* The setters need the chart mutably, so no buffer borrowed from it is alive.
block(choices) ==
  /\ out.status = "none"
  /\ \E b \in choices : chart' = [chart EXCEPT !.block = b]
  /\ UNCHANGED <<build, out>>

x_axis(axes) ==
  /\ out.status = "none"
  /\ \E a \in axes : chart' = [chart EXCEPT !.x_axis = a]
  /\ UNCHANGED <<build, out>>

y_axis(axes) ==
  /\ out.status = "none"
  /\ \E a \in axes : chart' = [chart EXCEPT !.y_axis = a]
  /\ UNCHANGED <<build, out>>

datasets(choices) ==
  /\ out.status = "none"
  /\ \E d \in choices : chart' = [chart EXCEPT !.datasets = d]
  /\ UNCHANGED <<build, out>>

Render(areas) ==
  /\ out.status = "none"
  /\ \E area \in areas :
       /\ BlockFits(chart.block, area)
       /\ \E nanx \in (IF chart.x_axis.bounds[1] = chart.x_axis.bounds[2] THEN NaNCast ELSE {0}),
             nany \in (IF chart.y_axis.bounds[1] = chart.y_axis.bounds[2] THEN NaNCast ELSE {0}) :
            out' = buffer(chart, area, nanx, nany, build)
  /\ UNCHANGED <<chart, build>>

\* The returned buffer (or the panic) is consumed by the caller.
DropBuffer ==
  /\ out.status # "none"
  /\ out' = NoOut
  /\ UNCHANGED <<chart, build>>

Next ==
  \/ block(Blocks)
  \/ x_axis(LayoutAxes)
  \/ y_axis(LayoutAxes)
  \/ datasets(LayoutDatasets)
  \/ Render(Areas)
  \/ DropBuffer

Spec == Init /\ [][Next]_vars

NextScale ==
  \/ block(ScaleBlocks)
  \/ x_axis(ScaleAxes)
  \/ y_axis(ScaleAxes)
  \/ datasets(ScaleDatasets)
  \/ Render(ScaleAreas)
  \/ DropBuffer

SpecScale == Init /\ [][NextScale]_vars

\* ------------------------------------------------------------- properties
Rendered == out.status # "none"
Laid == Rendered /\ out.laid
Plot == out.layout.graph_area
\* Columns and rows of the plot rectangle local to the outer area.
PlotLeft == Plot.x - out.area.x
PlotTop == Plot.y - out.area.y
PlotRight == PlotLeft + Plot.width - 1
PlotBottom == PlotTop + Plot.height - 1
XRange == chart.x_axis.bounds[2] - chart.x_axis.bounds[1]
YRange == chart.y_axis.bounds[2] - chart.y_axis.bounds[1]

\* C1: the plot rectangle layout returns is the zero rectangle or lies
\* entirely inside inner, for every contained inner/outer pair and axis
\* configuration.
C1_PlotInsideInner ==
  Laid => \/ Plot = RectDefault
          \/ /\ Plot.x >= out.inner.x
             /\ Plot.y >= out.inner.y
             /\ Plot.x + Plot.width <= out.inner.x + out.inner.width
             /\ Plot.y + Plot.height <= out.inner.y + out.inner.height

\* C2: with a non-empty plot rectangle no reserved region overlaps it: the
\* x-label row and x-axis-line row are below its last row, the y-label column
\* and y-axis-line column are left of its first column, and a legend's start
\* cell is never strictly inside it.
StrictlyInside(pos) ==
  /\ PlotLeft < pos[1] /\ pos[1] < PlotRight
  /\ PlotTop < pos[2] /\ pos[2] < PlotBottom

C2_NoRegionOverlapsPlot ==
  (Laid /\ Plot # RectDefault) =>
    LET L == out.layout IN
    /\ L.label_x.some => L.label_x.v > PlotBottom
    /\ L.axis_x.some => L.axis_x.v > PlotBottom
    /\ L.label_y.some => L.label_y.v < PlotLeft
    /\ L.axis_y.some => L.axis_y.v < PlotLeft
    /\ L.legend_x.some => ~StrictlyInside(L.legend_x.v)
    /\ L.legend_y.some => ~StrictlyInside(L.legend_y.v)

\* C3: inner = outer = {0, 0, 20, 10}, an x axis with 2 labels and a y axis
\* with 2 one-column labels give a plot of width 18 and height 8, the x-axis
\* line at local row 8 and the y-axis line at local column 1.
Scenario ==
  /\ Laid
  /\ out.area = Rect(0, 0, 20, 10)
  /\ out.inner = out.area
  /\ chart.x_axis.labels.some /\ Len(chart.x_axis.labels.v) = 2
  /\ chart.y_axis.labels = Some(<<1, 1>>)

C3_ScenarioPlot ==
  Scenario => /\ Plot.width = 18
              /\ Plot.height = 8
              /\ out.layout.axis_x = Some(8)
              /\ out.layout.axis_y = Some(1)

\* C4: when the plot rectangle has width or height 0, render writes no
\* data-point marker into the buffer.
C4_EmptyPlotDrawsNoPoint ==
  (out.status = "ok" /\ (out.width = 0 \/ out.height = 0)) =>
    \A m \in out.marks : ~m.drawn

\* C5: when an axis has max = min, render drops every sample: no data-point
\* marker is written.
C5_ZeroRangeDropsSamples ==
  (out.status = "ok" /\ (XRange = 0 \/ YRange = 0)) =>
    \A m \in out.marks : ~m.drawn

\* C6: for an inner rectangle of width 0 or height 0, layout reserves no
\* region at all and the plot rectangle is the zero rectangle.
C6_EmptyInnerReservesNothing ==
  (Laid /\ (out.inner.width = 0 \/ out.inner.height = 0)) =>
    out.layout = ChartLayoutDefault

\* C7: no u16 subtraction of layout or render goes below 0 and no addition
\* exceeds 65535, so the render path never raises an error.
C7_NoOverflow ==
  Rendered => (~out.fault /\ out.status = "ok")

\* C8 as stated: the x legend is placed iff the x axis has a title narrower
\* than the plot and the plot is more than 2 rows high; it is placed at local
\* column x + plot.width - title_width, on the row of the x-axis line
\* whenever that line is reserved.
LegendXPlaced ==
  /\ chart.x_axis.title.some
  /\ chart.x_axis.title.v < Plot.width
  /\ Plot.height > 2

C8_LegendOnAxisLineRow ==
  Laid => LET L == out.layout IN
          /\ L.legend_x.some <=> LegendXPlaced
          /\ L.legend_x.some =>
               /\ L.legend_x.v[1] = PlotLeft + Plot.width - chart.x_axis.title.v
               /\ L.axis_x.some => L.legend_x.v[2] = L.axis_x.v

\* C8 amended: placed under the same condition and at the same column, the x
\* legend sits on local row plot.height, which is the row above the x-axis
\* line whenever that line is reserved.
C8_LegendAboveAxisLine ==
  Laid => LET L == out.layout IN
          /\ L.legend_x.some <=> LegendXPlaced
          /\ L.legend_x.some =>
               /\ L.legend_x.v[1] = PlotLeft + Plot.width - chart.x_axis.title.v
               /\ L.legend_x.v[2] = Plot.height
               /\ L.axis_x.some => L.legend_x.v[2] = L.axis_x.v - 1

C8_Witness ==
  /\ out.status = "ok" /\ ~out.fault
  /\ out.layout.legend_x.some /\ out.layout.axis_x.some
  /\ out.layout.legend_x.v[2] = out.layout.axis_x.v - 1

\* C9: for bounds min < max and a fixed plot extent, two in-bounds raw values
\* a <= b have truncated cell offsets offset(b) <= offset(a), on each axis.
C9_ScalingMonotonic ==
  out.status = "ok" =>
    \A m \in out.marks : \A n \in out.marks :
      /\ (XRange > 0 /\ m.x <= n.x) => n.dx <= m.dx
      /\ (YRange > 0 /\ m.y <= n.y) => n.dy <= m.dy

C9_Witness ==
  /\ out.status = "ok"
  /\ XRange > 0 /\ YRange > 0
  /\ \E m \in out.marks : \E n \in out.marks :
       /\ m.x < n.x /\ n.dx < m.dx
       /\ m.y < n.y /\ n.dy < m.dy
       /\ n.dx > 0 /\ n.dy > 0

\* C10: every data-point marker render writes lands inside the plot
\* rectangle: local column in [margin_x, margin_x + width - 1] and local row
\* in [margin_y, margin_y + height - 1].
C10_MarkersInsidePlot ==
  out.status = "ok" =>
    \A m \in out.marks :
      m.drawn => /\ out.margin_x <= m.col /\ m.col <= out.margin_x + out.width - 1
                 /\ out.margin_y <= m.row /\ m.row <= out.margin_y + out.height - 1

====
